---- MODULE Spec2Model ----
(***************************************************************************)
(* Model of peek (src/main.rs): main -> Peek::new -> Peek::run ->          *)
(* Peek::output, the spawn/wait thread started by Program::run, the ctrlc  *)
(* handler, and the observed child process.                                *)
(***************************************************************************)
EXTENDS Integers, Sequences, FiniteSets, TLC

\* ---- bounds of the model ----
MaxSamples == 3
MaxInterrupts == 2
MaxProgLen == 2
NumUuids == 2
NumPids == 2

Uuids == 1..NumUuids
Pids == 1..NumPids
Chars == {"a", " "}
Formats == {"Csv", "Json"}
Outputs == {"File", "Stdout"}

VARIABLES
  mainpc,        \* position of the main thread
  threadpc,      \* position of the spawn/wait thread
  child,         \* the target process: none, running, exited (zombie), reaped
  attempts,      \* spawn attempts made by the thread, in order
  handler,       \* ctrlc handler: none, installed, failed
  installs,      \* number of successful ctrlc::set_handler calls
  handlerPanicked, \* the handler's tx.send(()).unwrap() has panicked
  cli_program,   \* Cli.program, a string
  format,        \* Cli.format
  output,        \* Cli.output
  command,       \* Program.command followed by Program.args (tokens)
  uuid,          \* the run's Uuid (0 before Peek::run)
  childPid,      \* child.id() in the thread (0 before spawn)
  pid,           \* RunningProgram.pid in the main thread (0 before recv)
  pidQ,          \* pid channel contents
  pidTxAlive,    \* pid_tx not yet dropped
  statusQ,       \* status channel contents
  statusRxAlive, \* RunningProgram.finished_running not yet dropped
  ctrlQ,         \* pending notifications on the ctrl-c channel
  ctrlRxAlive,   \* Peek.crtl_c_interupt not yet dropped
  samples,       \* Peek.samples
  sample,        \* the local counter `sample`
  loopState,     \* NotStarted, Running, StoppedByExit, StoppedByInterrupt, StoppedByError
  outputCalls,   \* number of calls of Peek::output
  outputArg,     \* self.samples as seen by Peek::output
  fileCreated,   \* File::create succeeded
  fileData,      \* what was written to the file, <<>> if nothing
  stdout,        \* what was written to standard output, <<>> if nothing
  result,        \* none, ok, err, panic: how main ended
  failure,       \* which error ended main
  interruptsSent,\* number of times the handler ran
  latchLen,      \* Len(samples) when the first interrupt was latched, -1 before
  latchAt        \* mainpc when the first interrupt was latched, "never" before

vars == <<mainpc, threadpc, child, attempts, handler, installs, handlerPanicked,
          cli_program, format, output, command, uuid, childPid, pid, pidQ,
          pidTxAlive, statusQ, statusRxAlive, ctrlQ, ctrlRxAlive, samples,
          sample, loopState, outputCalls, outputArg, fileCreated, fileData,
          stdout, result, failure, interruptsSent, latchLen, latchAt>>

cliVars == <<cli_program, format, output>>
threadVars == <<threadpc, child, attempts, childPid, pidQ, pidTxAlive>>
sinkVars == <<outputCalls, outputArg, fileCreated, fileData, stdout>>
intVars == <<ctrlQ, interruptsSent, latchLen, latchAt, handlerPanicked>>
loopVars == <<samples, sample, loopState>>

\* ---- pure helpers ----

Strings(n) == UNION {[1..k -> Chars] : k \in 0..n}

\* str::split_whitespace: the maximal runs of non-whitespace characters
RECURSIVE SplitFrom(_, _, _)
SplitFrom(s, i, cur) ==
  IF i > Len(s) THEN (IF cur = <<>> THEN <<>> ELSE <<cur>>)
  ELSE IF s[i] = " "
       THEN (IF cur = <<>> THEN SplitFrom(s, i + 1, <<>>)
             ELSE <<cur>> \o SplitFrom(s, i + 1, <<>>))
       ELSE SplitFrom(s, i + 1, Append(cur, s[i]))

split_whitespace(s) == SplitFrom(s, 1, <<>>)

\* the Samples value pushed at lines 85-95 (metric fields left out)
NewSample_PidFromCounter(u, n, p) == [uuid |-> u, sample |-> n, pid |-> n]
NewSample(u, n, p) == [uuid |-> u, sample |-> n, pid |-> p]

\* sample += 1
NextSample_Stuck(n) == n
NextSample(n) == n + 1

\* to_json: the records in buffer order, fields in declaration order
to_json(data) == [i \in 1..Len(data) |-> <<data[i].uuid, data[i].sample, data[i].pid>>]

\* System::process(pid) after refresh_processes: a running process is found,
\* a reaped one is not, an exited but not yet reaped one depends on the platform
ProcessFound == IF child = "running" THEN {TRUE}
                ELSE IF child = "exited" THEN {TRUE, FALSE}
                ELSE {FALSE}

ExitCode == IF result = "ok" THEN 0 ELSE IF result = "err" THEN 1
            ELSE IF result = "panic" THEN 101 ELSE -1

Init ==
  /\ mainpc = "new"
  /\ threadpc = "idle"
  /\ child = "none"
  /\ attempts = <<>>
  /\ handler = "none"
  /\ installs = 0
  /\ handlerPanicked = FALSE
  /\ cli_program \in Strings(MaxProgLen)
  /\ format \in Formats
  /\ output \in Outputs
  /\ command = <<>>
  /\ uuid = 0
  /\ childPid = 0
  /\ pid = 0
  /\ pidQ = <<>>
  /\ pidTxAlive = FALSE
  /\ statusQ = <<>>
  /\ statusRxAlive = FALSE
  /\ ctrlQ = 0
  /\ ctrlRxAlive = FALSE
  /\ samples = <<>>
  /\ sample = 0
  /\ loopState = "NotStarted"
  /\ outputCalls = 0
  /\ outputArg = <<>>
  /\ fileCreated = FALSE
  /\ fileData = <<>>
  /\ stdout = <<>>
  /\ result = "none"
  /\ failure = "none"
  /\ interruptsSent = 0
  /\ latchLen = -1
  /\ latchAt = "never"

\* ---- the main thread ----

\* main returns or unwinds: the Peek value (or Peek::new's locals) and the
\* RunningProgram are dropped, and with them the receiving ends
Finish(res, fail) ==
  /\ mainpc' = "exit"
  /\ result' = res
  /\ failure' = fail
  /\ ctrlRxAlive' = FALSE
  /\ statusRxAlive' = FALSE

\* Peek::new, lines 40-41: channel() and ctrlc::set_handler(..)?
InstallHandler_IgnoreErr ==
  /\ mainpc = "new"
  /\ \E ok \in BOOLEAN :
       /\ handler' = IF ok THEN "installed" ELSE "failed"
       /\ installs' = IF ok THEN installs + 1 ELSE installs
       /\ ctrlRxAlive' = TRUE
       /\ mainpc' = "program_new"
       /\ UNCHANGED <<result, failure, statusRxAlive>>
  /\ UNCHANGED <<cliVars, threadVars, sinkVars, intVars, loopVars,
                 command, uuid, pid, statusQ>>

InstallHandler ==
  /\ mainpc = "new"
  /\ \E ok \in BOOLEAN :
       IF ok
       THEN /\ handler' = "installed"
            /\ installs' = installs + 1
            /\ ctrlRxAlive' = TRUE
            /\ mainpc' = "program_new"
            /\ UNCHANGED <<result, failure, statusRxAlive>>
       ELSE /\ handler' = "failed"
            /\ installs' = installs
            /\ Finish("err", "SignalSetupError")
  /\ UNCHANGED <<cliVars, threadVars, sinkVars, intVars, loopVars,
                 command, uuid, pid, statusQ>>

\* Peek::new line 43 -> Program::new, lines 141-152: command[0] panics on an
\* empty token list
ProgramNew ==
  /\ mainpc = "program_new"
  /\ LET tokens == split_whitespace(cli_program) IN
       IF tokens = <<>>
       THEN /\ Finish("panic", "IndexOutOfBounds")
            /\ UNCHANGED command
       ELSE /\ command' = tokens
            /\ mainpc' = "run"
            /\ UNCHANGED <<result, failure, ctrlRxAlive, statusRxAlive>>
  /\ UNCHANGED <<cliVars, threadVars, sinkVars, intVars, loopVars,
                 handler, installs, uuid, pid, statusQ>>

\* Peek::run line 61 and Program::run lines 155-183: new uuid, the two
\* channels, and the thread is started
RunBegin ==
  /\ mainpc = "run"
  /\ \E u \in Uuids : uuid' = u
  /\ threadpc' = "spawn1"
  /\ pidTxAlive' = TRUE
  /\ statusRxAlive' = TRUE
  /\ mainpc' = "recv_pid"
  /\ UNCHANGED <<cliVars, sinkVars, intVars, loopVars, child, attempts,
                 childPid, pidQ, handler, installs, command, pid, statusQ,
                 ctrlRxAlive, result, failure>>

\* Program::run line 185: pid_rx.recv().unwrap(), then Peek::run lines 65-69
RecvPid ==
  /\ mainpc = "recv_pid"
  /\ \/ /\ pidQ # <<>>
        /\ pid' = Head(pidQ)
        /\ pidQ' = Tail(pidQ)
        /\ loopState' = "Running"
        /\ sample' = 0
        /\ mainpc' = "check_exit"
        /\ UNCHANGED <<result, failure, ctrlRxAlive, statusRxAlive>>
     \/ /\ pidQ = <<>>
        /\ ~pidTxAlive
        /\ Finish("panic", "SpawnError")
        /\ UNCHANGED <<pid, pidQ, loopState, sample>>
  /\ UNCHANGED <<cliVars, sinkVars, intVars, threadpc, child, attempts,
                 childPid, pidTxAlive, handler, installs, command, uuid,
                 statusQ, samples>>

\* the run returned Ok(()): `program` is dropped and main goes on to output
LoopBreak(cause) ==
  /\ loopState' = cause
  /\ statusRxAlive' = FALSE
  /\ mainpc' = "output"

\* line 72: program.finished_running.try_recv().is_ok()
CheckExit_SkipOutput ==
  /\ mainpc = "check_exit"
  /\ IF statusQ # <<>>
     THEN /\ statusQ' = Tail(statusQ)
          /\ loopState' = "StoppedByExit"
          /\ Finish("ok", "none")
     ELSE /\ mainpc' = "check_int"
          /\ UNCHANGED <<statusQ, loopState, statusRxAlive, result, failure, ctrlRxAlive>>
  /\ UNCHANGED <<cliVars, sinkVars, intVars, threadVars, handler, installs,
                 command, uuid, pid, samples, sample>>

CheckExit_FinalSample ==
  /\ mainpc = "check_exit"
  /\ IF statusQ # <<>>
     THEN /\ statusQ' = Tail(statusQ)
          /\ samples' = IF Len(samples) < MaxSamples
                        THEN Append(samples, NewSample(uuid, sample, pid))
                        ELSE samples
          /\ sample' = IF Len(samples) < MaxSamples THEN NextSample(sample) ELSE sample
          /\ LoopBreak("StoppedByExit")
     ELSE /\ mainpc' = "check_int"
          /\ UNCHANGED <<statusQ, loopState, statusRxAlive, samples, sample>>
  /\ UNCHANGED <<cliVars, sinkVars, intVars, threadVars, handler, installs,
                 command, uuid, pid, ctrlRxAlive, result, failure>>

CheckExit ==
  /\ mainpc = "check_exit"
  /\ IF statusQ # <<>>
     THEN /\ statusQ' = Tail(statusQ)
          /\ LoopBreak("StoppedByExit")
     ELSE /\ mainpc' = "check_int"
          /\ UNCHANGED <<statusQ, loopState, statusRxAlive>>
  /\ UNCHANGED <<cliVars, sinkVars, intVars, threadVars, handler, installs,
                 command, uuid, pid, samples, sample, ctrlRxAlive, result,
                 failure>>

\* line 73: self.crtl_c_interupt.try_recv().is_ok()
CheckInterrupt_Ignore ==
  /\ mainpc = "check_int"
  /\ mainpc' = "query"
  /\ UNCHANGED <<ctrlQ, loopState, statusRxAlive>>
  /\ UNCHANGED <<cliVars, sinkVars, threadVars, handler, installs, command,
                 uuid, pid, samples, sample, statusQ, ctrlRxAlive, result,
                 failure, interruptsSent, latchLen, latchAt, handlerPanicked>>

CheckInterrupt ==
  /\ mainpc = "check_int"
  /\ IF ctrlQ > 0
     THEN /\ ctrlQ' = ctrlQ - 1
          /\ LoopBreak("StoppedByInterrupt")
     ELSE /\ mainpc' = "query"
          /\ UNCHANGED <<ctrlQ, loopState, statusRxAlive>>
  /\ UNCHANGED <<cliVars, sinkVars, threadVars, handler, installs, command,
                 uuid, pid, samples, sample, statusQ, ctrlRxAlive, result,
                 failure, interruptsSent, latchLen, latchAt, handlerPanicked>>

\* lines 78-97: refresh_processes, process(pid) with `?`, push, sample += 1
Query_ClearOnError ==
  /\ mainpc = "query"
  /\ \E found \in ProcessFound :
       IF found
       THEN /\ Len(samples) < MaxSamples
            /\ samples' = Append(samples, NewSample(uuid, sample, pid))
            /\ sample' = NextSample(sample)
            /\ mainpc' = "sleep"
            /\ UNCHANGED <<loopState, result, failure, ctrlRxAlive, statusRxAlive>>
       ELSE /\ loopState' = "StoppedByError"
            /\ Finish("err", "ProcessDisappeared")
            /\ samples' = <<>>
            /\ UNCHANGED sample
  /\ UNCHANGED <<cliVars, sinkVars, intVars, threadVars, handler, installs,
                 command, uuid, pid, statusQ>>

Query ==
  /\ mainpc = "query"
  /\ \E found \in ProcessFound :
       IF found
       THEN /\ Len(samples) < MaxSamples
            /\ samples' = Append(samples, NewSample(uuid, sample, pid))
            /\ sample' = NextSample(sample)
            /\ mainpc' = "sleep"
            /\ UNCHANGED <<loopState, result, failure, ctrlRxAlive, statusRxAlive>>
       ELSE /\ loopState' = "StoppedByError"
            /\ Finish("err", "ProcessDisappeared")
            /\ UNCHANGED <<samples, sample>>
  /\ UNCHANGED <<cliVars, sinkVars, intVars, threadVars, handler, installs,
                 command, uuid, pid, statusQ>>

\* line 100: std::thread::sleep(MINIMUM_CPU_UPDATE_INTERVAL)
Sleep_ChecksInterrupt ==
  /\ mainpc = "sleep"
  /\ IF ctrlQ > 0
     THEN /\ ctrlQ' = ctrlQ - 1
          /\ LoopBreak("StoppedByInterrupt")
     ELSE /\ mainpc' = "check_exit"
          /\ UNCHANGED <<ctrlQ, loopState, statusRxAlive>>
  /\ UNCHANGED <<cliVars, sinkVars, threadVars, handler, installs, command,
                 uuid, pid, samples, sample, statusQ, ctrlRxAlive, result,
                 failure, interruptsSent, latchLen, latchAt, handlerPanicked>>

Sleep ==
  /\ mainpc = "sleep"
  /\ mainpc' = "check_exit"
  /\ UNCHANGED <<cliVars, sinkVars, intVars, threadVars, loopVars, handler,
                 installs, command, uuid, pid, statusQ, statusRxAlive,
                 ctrlRxAlive, result, failure>>

\* Peek::output, lines 105-131, called from main line 23; the parameters
\* select the variants Output_CsvAsJson and Output_IgnoreWriteErr, the code
\* is OutputBody(FALSE, FALSE)
OutputBody(csvRenders, writeErrIsOk) ==
  /\ mainpc = "output"
  /\ outputCalls' = outputCalls + 1
  /\ outputArg' = samples
  /\ IF format = "Csv" /\ ~csvRenders
     THEN /\ Finish("panic", "NotImplemented")
          /\ UNCHANGED <<fileCreated, fileData, stdout>>
     ELSE LET data == to_json(samples) IN
          IF output = "File"
          THEN \E createOk \in BOOLEAN, writeOk \in BOOLEAN :
                 /\ fileCreated' = createOk
                 /\ IF ~createOk
                    THEN /\ Finish("err", "OutputError")
                         /\ UNCHANGED fileData
                    ELSE IF writeOk
                    THEN /\ fileData' = <<data>>
                         /\ Finish("ok", "none")
                    ELSE /\ UNCHANGED fileData
                         /\ IF writeErrIsOk THEN Finish("ok", "none")
                            ELSE Finish("err", "OutputError")
                 /\ UNCHANGED stdout
          ELSE \E ok \in BOOLEAN :
                 /\ IF ok
                    THEN /\ stdout' = <<data>>
                         /\ Finish("ok", "none")
                    ELSE /\ UNCHANGED stdout
                         /\ Finish("panic", "OutputError")
                 /\ UNCHANGED <<fileCreated, fileData>>
  /\ UNCHANGED <<cliVars, intVars, threadVars, loopVars, handler, installs,
                 command, uuid, pid, statusQ>>

Output_CsvAsJson == OutputBody(TRUE, FALSE)
Output_IgnoreWriteErr == OutputBody(FALSE, TRUE)
Output == OutputBody(FALSE, FALSE)

\* main has returned (or unwound): the process exits and its threads with it
Exit ==
  /\ mainpc = "exit"
  /\ mainpc' = "done"
  /\ UNCHANGED <<cliVars, sinkVars, intVars, threadVars, loopVars, handler,
                 installs, command, uuid, pid, statusQ, statusRxAlive,
                 ctrlRxAlive, result, failure>>

\* ---- the spawn/wait thread, Program::run lines 161-183 ----

mainFrame == <<mainpc, cliVars, sinkVars, intVars, loopVars, handler, installs,
               command, uuid, pid, ctrlRxAlive, result, failure>>

\* line 165: Command::new(&command).args(&args).spawn()
Spawn1 ==
  /\ mainpc # "done"
  /\ threadpc = "spawn1"
  /\ \E ok \in BOOLEAN :
       /\ attempts' = Append(attempts, <<"bare", ok>>)
       /\ IF ok
          THEN /\ child' = "running"
               /\ \E p \in Pids : childPid' = p
               /\ threadpc' = "send_pid"
          ELSE /\ threadpc' = "spawn2"
               /\ UNCHANGED <<child, childPid>>
  /\ UNCHANGED <<mainFrame, pidQ, pidTxAlive, statusQ, statusRxAlive>>

\* lines 172-175: Command::new(cwd.join(&command)).args(&args).spawn().unwrap();
\* the panic unwinds the closure and drops pid_tx and status_tx
Spawn2_KeepTx ==
  /\ mainpc # "done"
  /\ threadpc = "spawn2"
  /\ \E ok \in BOOLEAN :
       /\ attempts' = Append(attempts, <<"rel", ok>>)
       /\ IF ok
          THEN /\ child' = "running"
               /\ \E p \in Pids : childPid' = p
               /\ threadpc' = "send_pid"
               /\ UNCHANGED pidTxAlive
          ELSE /\ threadpc' = "panicked"
               /\ UNCHANGED <<child, childPid, pidTxAlive>>
  /\ UNCHANGED <<mainFrame, pidQ, statusQ, statusRxAlive>>

Spawn2 ==
  /\ mainpc # "done"
  /\ threadpc = "spawn2"
  /\ \E ok \in BOOLEAN :
       /\ attempts' = Append(attempts, <<"rel", ok>>)
       /\ IF ok
          THEN /\ child' = "running"
               /\ \E p \in Pids : childPid' = p
               /\ threadpc' = "send_pid"
               /\ UNCHANGED pidTxAlive
          ELSE /\ threadpc' = "panicked"
               /\ pidTxAlive' = FALSE
               /\ UNCHANGED <<child, childPid>>
  /\ UNCHANGED <<mainFrame, pidQ, statusQ, statusRxAlive>>

\* lines 166 / 177: pid_tx.send(child.id()).unwrap(); main holds pid_rx
\* until it has received
SendPid ==
  /\ mainpc # "done"
  /\ threadpc = "send_pid"
  /\ pidQ' = Append(pidQ, childPid)
  /\ threadpc' = "wait"
  /\ UNCHANGED <<mainFrame, child, attempts, childPid, pidTxAlive, statusQ,
                 statusRxAlive>>

\* lines 169 / 180: child.wait().unwrap() returns once the child has exited
\* and reaps it
Wait_NoBlock ==
  /\ mainpc # "done"
  /\ threadpc = "wait"
  /\ child' = IF child = "exited" THEN "reaped" ELSE child
  /\ threadpc' = "send_status"
  /\ UNCHANGED <<mainFrame, attempts, childPid, pidQ, pidTxAlive, statusQ,
                 statusRxAlive>>

Wait ==
  /\ mainpc # "done"
  /\ threadpc = "wait"
  /\ child = "exited"
  /\ child' = "reaped"
  /\ threadpc' = "send_status"
  /\ UNCHANGED <<mainFrame, attempts, childPid, pidQ, pidTxAlive, statusQ,
                 statusRxAlive>>

\* lines 168-170 / 179-181: status_tx.send(..).expect(..); the closure ends
\* and drops both senders
SendStatus ==
  /\ mainpc # "done"
  /\ threadpc = "send_status"
  /\ IF statusRxAlive
     THEN /\ statusQ' = Append(statusQ, "status")
          /\ threadpc' = "done"
     ELSE /\ threadpc' = "panicked"
          /\ UNCHANGED statusQ
  /\ pidTxAlive' = FALSE
  /\ UNCHANGED <<mainFrame, child, attempts, childPid, pidQ, statusRxAlive>>

\* ---- the environment ----

\* the target process exits on its own
ChildExit ==
  /\ child = "running"
  /\ child' = "exited"
  /\ UNCHANGED <<mainFrame, threadpc, attempts, childPid, pidQ, pidTxAlive,
                 statusQ, statusRxAlive>>

\* line 41: the handler `move || tx.send(()).unwrap()` runs on Ctrl-C
Interrupt ==
  /\ mainpc # "done"
  /\ handler = "installed"
  /\ ~handlerPanicked
  /\ interruptsSent < MaxInterrupts
  /\ interruptsSent' = interruptsSent + 1
  /\ IF ctrlRxAlive
     THEN /\ ctrlQ' = ctrlQ + 1
          /\ latchLen' = IF latchLen = -1 THEN Len(samples) ELSE latchLen
          /\ latchAt' = IF latchLen = -1 THEN mainpc ELSE latchAt
          /\ UNCHANGED handlerPanicked
     ELSE /\ handlerPanicked' = TRUE
          /\ UNCHANGED <<ctrlQ, latchLen, latchAt>>
  /\ UNCHANGED <<mainpc, cliVars, sinkVars, threadVars, loopVars, handler,
                 installs, command, uuid, pid, statusQ, statusRxAlive,
                 ctrlRxAlive, result, failure>>

Next ==
  \/ InstallHandler
  \/ ProgramNew
  \/ RunBegin
  \/ RecvPid
  \/ CheckExit
  \/ CheckInterrupt
  \/ Query
  \/ Sleep
  \/ Output
  \/ Exit
  \/ Spawn1
  \/ Spawn2
  \/ SendPid
  \/ Wait
  \/ SendStatus
  \/ ChildExit
  \/ Interrupt

Spec == Init /\ [][Next]_vars

\* the operating system schedules the main thread and the spawn/wait thread
\* fairly; the child's exit and the operator's Ctrl-C are not forced
MainStep ==
  \/ InstallHandler \/ ProgramNew \/ RunBegin \/ RecvPid \/ CheckExit
  \/ CheckInterrupt \/ Query \/ Sleep \/ Output \/ Exit
ThreadStep == Spawn1 \/ Spawn2 \/ SendPid \/ Wait \/ SendStatus

\* the loop never reads Cli.program once Program::new has split it: the fair
\* runs are those of a one-token command line, with any format and output
FairInit == Init /\ cli_program = <<"a">>

FairSpec ==
  FairInit /\ [][Next]_vars /\ WF_vars(MainStep) /\ WF_vars(ThreadStep)

TypeOK ==
  /\ mainpc \in {"new", "program_new", "run", "recv_pid", "check_exit",
                 "check_int", "query", "sleep", "output", "exit", "done"}
  /\ threadpc \in {"idle", "spawn1", "spawn2", "send_pid", "wait",
                   "send_status", "done", "panicked"}
  /\ child \in {"none", "running", "exited", "reaped"}
  /\ loopState \in {"NotStarted", "Running", "StoppedByExit",
                    "StoppedByInterrupt", "StoppedByError"}
  /\ result \in {"none", "ok", "err", "panic"}
  /\ Len(samples) <= MaxSamples
  /\ ctrlQ \in 0..MaxInterrupts

\* ---- properties ----

Stopped == {"StoppedByExit", "StoppedByInterrupt", "StoppedByError"}
CleanStop == {"StoppedByExit", "StoppedByInterrupt"}
MainEnded == mainpc \in {"exit", "done"}
LastIsCountMinusOne ==
  samples # <<>> => samples[Len(samples)].sample = Len(samples) - 1
BothSpawnsFailed ==
  Len(attempts) = 2 /\ ~attempts[1][2] /\ ~attempts[2][2]
Written ==
  \/ output = "File" /\ fileData = <<to_json(samples)>>
  \/ output = "Stdout" /\ stdout = <<to_json(samples)>>

\* C1: in every reachable state the sequence numbers of the samples in the
\* buffer, read in buffer order, are exactly 0, 1, ..., n-1.
C1_SeqNumbers ==
  \A i \in 1..Len(samples) : samples[i].sample = i - 1

C1_Witness == loopState = "Running" /\ Len(samples) >= 3

\* C2 (as claimed): when the metrics query reports the process missing, the
\* run stops with ProcessDisappeared and the samples appended so far are
\* still handed to Peek::output.
C2_PartialOutput ==
  (mainpc = "done" /\ loopState = "StoppedByError") =>
     /\ failure = "ProcessDisappeared"
     /\ outputCalls = 1
     /\ outputArg = samples

\* C3 (as claimed): if the target exits naturally and no interrupt is sent,
\* the loop always stops with StoppedByExit, never through the
\* "no such process" error, and the last sequence number is count-1.
C3_AlwaysStoppedByExit ==
  (loopState \in Stopped /\ interruptsSent = 0 /\ child \in {"exited", "reaped"}) =>
     /\ loopState = "StoppedByExit"
     /\ LastIsCountMinusOne

\* C3 (amended): if no interrupt is sent, the loop stops only after the
\* target has exited, either with StoppedByExit through the exit notification
\* (sent after the child was reaped, and consumed by the loop) or with
\* StoppedByError / ProcessDisappeared when the metrics query misses the
\* process first; in both cases the last sequence number is count-1.
C3_ExitOrDisappeared ==
  (loopState \in Stopped /\ interruptsSent = 0) =>
     /\ loopState \in {"StoppedByExit", "StoppedByError"}
     /\ child \in {"exited", "reaped"}
     /\ loopState = "StoppedByExit" =>
          child = "reaped" /\ threadpc = "done" /\ statusQ = <<>>
     /\ loopState = "StoppedByError" => failure = "ProcessDisappeared"
     /\ LastIsCountMinusOne

C3_Witness ==
  loopState = "StoppedByExit" /\ interruptsSent = 0 /\ Len(samples) >= 2

\* C4 (as claimed): after a run that stopped by interrupt, the target
\* spawned by the tool has been killed and is no longer running.
C4_KillOnInterrupt ==
  (mainpc = "done" /\ loopState = "StoppedByInterrupt") => child # "running"

\* C5: Peek::output is called at most once, never while the loop is Running
\* (only after a stop by exit or interrupt) and with the complete buffer, and
\* every run that stopped by exit or interrupt has called it exactly once.
C5_SinkOnce ==
  /\ outputCalls <= 1
  /\ outputCalls > 0 => loopState \in CleanStop /\ outputArg = samples
  /\ (MainEnded /\ loopState \in CleanStop) => outputCalls = 1

C5_Witness ==
  /\ mainpc = "done" /\ loopState = "StoppedByExit"
  /\ outputCalls = 1 /\ Len(outputArg) >= 2

\* C6: after the first interrupt is latched the loop appends at most one more
\* sample; the interrupt check that finds a latched interrupt stops the loop;
\* and an interrupt received once the loop has stopped changes neither the
\* termination cause, nor the buffer, nor the output.
C6_AtMostOneMore ==
  latchLen # -1 => Len(samples) <= latchLen + 1

C6_CheckStops ==
  (mainpc = "check_int" /\ ctrlQ > 0 /\ mainpc' # mainpc) =>
     loopState' = "StoppedByInterrupt"

C6_LaterIgnored ==
  (loopState \in Stopped /\ interruptsSent' # interruptsSent) =>
     /\ loopState' = loopState
     /\ samples' = samples
     /\ <<outputArg, fileCreated, fileData, stdout, result, failure>>' =
          <<outputArg, fileCreated, fileData, stdout, result, failure>>

C6_InterruptLatch ==
  /\ []C6_AtMostOneMore
  /\ [][C6_CheckStops]_vars
  /\ [][C6_LaterIgnored]_vars

C6_Witness ==
  /\ loopState = "StoppedByInterrupt"
  /\ latchLen # -1 /\ Len(samples) = latchLen + 1
  /\ interruptsSent >= 2

\* C7: the relative-path attempt is made only after the bare-command attempt
\* failed; when both fail, pid_rx.recv() does not block (the sender is gone),
\* main ends with a failure, the loop is never entered, no sample is
\* appended and Peek::output is not called.
C7_SpawnFailure ==
  /\ Len(attempts) <= 2
  /\ Len(attempts) >= 1 => attempts[1][1] = "bare"
  /\ Len(attempts) = 2 => attempts[1] = <<"bare", FALSE>> /\ attempts[2][1] = "rel"
  /\ BothSpawnsFailed =>
       /\ child = "none"
       /\ loopState = "NotStarted"
       /\ samples = <<>>
       /\ outputCalls = 0
       /\ mainpc \in {"recv_pid", "exit", "done"}
       /\ mainpc = "recv_pid" => ENABLED RecvPid
       /\ MainEnded => result = "panic" /\ failure = "SpawnError"

C7_Witness ==
  BothSpawnsFailed /\ mainpc = "done" /\ failure = "SpawnError"

\* C8: the handler is installed exactly once, before the thread that spawns
\* the target is started and before the loop; when the installation fails
\* main ends with an error, nothing is spawned, sampled or emitted.
C8_HandlerFirst ==
  /\ installs <= 1
  /\ (mainpc # "new" /\ handler # "failed") => handler = "installed" /\ installs = 1
  /\ (threadpc # "idle" \/ child # "none" \/ loopState # "NotStarted") =>
        handler = "installed" /\ installs = 1
  /\ handler = "failed" =>
       /\ MainEnded /\ result = "err" /\ failure = "SignalSetupError"
       /\ threadpc = "idle" /\ child = "none"
       /\ samples = <<>>
       /\ outputCalls = 0 /\ ~fileCreated /\ fileData = <<>> /\ stdout = <<>>

C8_Witness == handler = "failed" /\ mainpc = "done"

\* C9: with the CSV format no file is ever created or written and nothing is
\* written to standard output, the run never ends successfully, and a call
\* of Peek::output fails with NotImplemented, for either destination and any
\* number of samples.
C9_CsvNotImplemented ==
  format = "Csv" =>
    /\ ~fileCreated /\ fileData = <<>> /\ stdout = <<>>
    /\ MainEnded => result # "ok"
    /\ outputCalls > 0 => result = "panic" /\ failure = "NotImplemented"

C9_Witness ==
  /\ format = "Csv" /\ output = "File" /\ mainpc = "done"
  /\ outputCalls = 1 /\ Len(outputArg) >= 2

\* C10: the exit code is 0 exactly when the loop stopped by exit or interrupt
\* and the output was written; handler install failure, spawn failure, a
\* missing process and an output failure all give a non-zero exit code.
C10_ExitCode ==
  mainpc = "done" =>
    /\ ExitCode \in {0, 1, 101}
    /\ ExitCode = 0 <=> (loopState \in CleanStop /\ Written)
    /\ (handler = "failed" \/ BothSpawnsFailed \/ loopState = "StoppedByError"
          \/ failure # "none") => ExitCode # 0

C10_Witness ==
  mainpc = "done" /\ ExitCode = 0 /\ loopState = "StoppedByInterrupt" /\ Len(samples) >= 1

PidsSent == Len(pidQ) + (IF pid # 0 THEN 1 ELSE 0)
PreLoop == {"program_new", "run", "recv_pid"}

\* C11: every sample in the buffer carries the run's uuid (generated once in
\* Peek::run) and the pid received from the spawn thread, which is the
\* child's pid; neither value changes once the loop has started.
C11_BufferIds ==
  /\ \A i \in 1..Len(samples) : samples[i].uuid = uuid /\ samples[i].pid = pid
  /\ loopState # "NotStarted" => uuid \in Uuids /\ pid \in Pids /\ pid = childPid

C11_IdsFixed ==
  loopState # "NotStarted" => uuid' = uuid /\ pid' = pid

C11_SameRun == []C11_BufferIds /\ [][C11_IdsFixed]_vars

C11_Witness ==
  /\ loopState = "Running" /\ Len(samples) >= 2
  /\ samples[1].uuid = samples[2].uuid /\ samples[1].pid = samples[2].pid

\* C12: every step leaves the buffer unchanged or appends exactly one sample
\* at its end; the step into a terminal state, StoppedByError included, and
\* every step after it leave the buffer unchanged.
C12_Step ==
  \/ samples' = samples
  \/ /\ Len(samples') = Len(samples) + 1
     /\ SubSeq(samples', 1, Len(samples)) = samples

C12_Terminal ==
  (loopState' \in Stopped) => samples' = samples

C12_AppendOnly == [][C12_Step /\ C12_Terminal]_vars

C12_Witness == loopState = "StoppedByError" /\ Len(samples) >= 2

\* C13: the exit check that finds a pending exit notification stops the loop
\* with StoppedByExit, without going on to the interrupt check or the metrics
\* query and without appending: buffer and counter are unchanged.
C13_ExitCheck ==
  (mainpc = "check_exit" /\ statusQ # <<>> /\ mainpc' # mainpc) =>
     /\ loopState' = "StoppedByExit"
     /\ mainpc' \notin {"check_int", "query", "sleep"}
     /\ samples' = samples /\ sample' = sample

C13_NoFinalSample == [][C13_ExitCheck]_vars

C13_Witness ==
  /\ loopState = "StoppedByExit" /\ mainpc = "output"
  /\ Len(samples) >= 1 /\ sample = Len(samples)

\* C14 (as claimed): the interrupt check comes after the append, so a run
\* that ends StoppedByInterrupt with the interrupt latched before the loop
\* started and the target alive contains at least one sample.
C14_InterruptAfterAppend ==
  (loopState = "StoppedByInterrupt" /\ latchAt \in PreLoop /\ child = "running") =>
     Len(samples) >= 1

\* C14 (amended): the steps of an iteration run in the order exit check,
\* interrupt check, metrics query with append, sleep; only the query step
\* appends; the step that stops by interrupt is the interrupt check and
\* appends nothing; a run that ends StoppedByInterrupt with the interrupt
\* latched before the loop started contains no sample.
C14_Order ==
  /\ mainpc = "check_exit" => mainpc' \in {"check_exit", "check_int", "output"}
  /\ mainpc = "check_int" => mainpc' \in {"check_int", "query", "output"}
  /\ mainpc = "query" => mainpc' \in {"query", "sleep", "exit"}
  /\ mainpc = "sleep" => mainpc' \in {"sleep", "check_exit"}
  /\ samples' # samples => mainpc = "query" /\ mainpc' = "sleep"
  /\ (loopState = "Running" /\ loopState' = "StoppedByInterrupt") =>
        mainpc = "check_int" /\ samples' = samples

C14_PreLoopLatch ==
  (loopState = "StoppedByInterrupt" /\ latchAt \in PreLoop) => samples = <<>>

C14_InterruptBeforeQuery == []C14_PreLoopLatch /\ [][C14_Order]_vars

C14_Witness ==
  /\ loopState = "StoppedByInterrupt" /\ latchAt = "recv_pid"
  /\ child = "running" /\ samples = <<>>

\* C15: under fair scheduling of the main thread and the wait thread, a
\* running loop whose target has exited, or that has an interrupt pending
\* (with room left in the bounded buffer), eventually stops; the loop leaves
\* Running only when an exit notification or an interrupt is pending or the
\* process is no longer running; every passage through the query appends
\* exactly one sample, and a running loop eventually appends or stops.
C15_StaysRunning ==
  (loopState = "Running" /\ loopState' # "Running") =>
     (statusQ # <<>> \/ ctrlQ > 0 \/ child # "running")

C15_OnePerIteration ==
  (mainpc = "query" /\ mainpc' = "sleep") => Len(samples') = Len(samples) + 1

C15_Progress ==
  /\ (loopState = "Running" /\ child \in {"exited", "reaped"}) ~> (loopState \in Stopped)
  /\ (loopState = "Running" /\ ctrlQ > 0 /\ Len(samples) < MaxSamples)
        ~> (loopState \in Stopped)
  /\ \A n \in 0..(MaxSamples - 1) :
        (loopState = "Running" /\ Len(samples) = n)
           ~> (loopState \in Stopped \/ Len(samples) > n)
  /\ [][C15_StaysRunning /\ C15_OnePerIteration]_vars

C15_Witness ==
  loopState = "StoppedByInterrupt" /\ latchAt = "query" /\ Len(samples) >= 2

\* C16: the thread sends the pid exactly once, before it waits, and the exit
\* status at most once, only after the child has exited and been reaped; the
\* loop starts only with the child's pid and stops by exit only for a child
\* that has exited.
C16_Channels ==
  /\ PidsSent <= 1
  /\ Len(statusQ) <= 1
  /\ threadpc \in {"idle", "spawn1", "spawn2", "send_pid"} =>
        PidsSent = 0 /\ statusQ = <<>>
  /\ threadpc \in {"wait", "send_status", "done"} => PidsSent = 1
  /\ threadpc \in {"wait", "send_status"} => statusQ = <<>>
  /\ statusQ # <<>> => child = "reaped" /\ threadpc = "done"
  /\ loopState # "NotStarted" => pid = childPid /\ pid \in Pids
  /\ loopState = "StoppedByExit" => child = "reaped"

C16_Sends ==
  /\ Len(pidQ') > Len(pidQ) => threadpc = "send_pid" /\ threadpc' = "wait"
  /\ Len(statusQ') > Len(statusQ) =>
        threadpc = "send_status" /\ threadpc' = "done" /\ child = "reaped"

C16_PidThenStatus == []C16_Channels /\ [][C16_Sends]_vars

C16_Witness ==
  /\ loopState = "StoppedByExit" /\ threadpc = "done" /\ pid = childPid
  /\ attempts = <<<<"bare", FALSE>>, <<"rel", TRUE>>>>

\* C17 (as claimed): no send happens on a channel whose receiver has been
\* dropped: the handler never panics, and the thread panics only when both
\* spawn attempts failed, never in its status send.
C17_NoSendAfterDrop ==
  /\ ~handlerPanicked
  /\ threadpc = "panicked" => BothSpawnsFailed

\* C18 (as claimed): a program string without any token makes Program::new
\* return Err: main ends with an error value, nothing is spawned, sampled or
\* emitted.
C18_EmptyProgramIsErr ==
  (split_whitespace(cli_program) = <<>> /\ MainEnded /\ handler = "installed") =>
     /\ result = "err"
     /\ child = "none" /\ threadpc = "idle"
     /\ samples = <<>> /\ outputCalls = 0
====
